---- MODULE Spec2Model ----
(***************************************************************************)
(* Model of the adaptive sweep controller of stockfish/benchmarks/sfbench.py *)
(* (run_benchmark, get_average_result, has_improvement, get_best_values,   *)
(* run_series, run_varying_threads, run_varying_ttsize).                   *)
(* The thread sweep of the script it replaced, run_benchmarks of           *)
(* src/stockfish/benchmark.py, is modelled beside it.                      *)
(*                                                                         *)
(* Numbers.  statistics.mean is modelled exactly, as a reduced fraction    *)
(* [num, den] (the float it returns for a non-integral mean orders as the  *)
(* exact value does); the tracker's integer start values are fractions     *)
(* over 1.                                                                 *)
(* total_time_ms is counted in units of 10^9 ms, because TLC's integers    *)
(* are 32 bits wide: the start value 1000000000000 of line 117 is 1000.    *)
(* Timestamps (datetime.utcnow) are the values of a strictly increasing    *)
(* clock.                                                                  *)
(***************************************************************************)
EXTENDS Integers, Sequences, FiniteSets, TLC

VARIABLES
    kind,                     \* entry point: "series", "threads", "ttsize"
    repetitions,              \* SeriesParams.repetitions
    max_failures_to_improve,  \* SeriesParams.max_failures_to_improve
    min_final_threads,        \* run_varying_threads' argument
    pc,                       \* "for", "while", "returned", "raised"
    consumed,                 \* number of configurations taken from params_seq
    params,                   \* the loop variable of run_series
    results,                  \* the Result Table (a defaultdict of lists)
    best_values,              \* the Best-So-Far Tracker
    failures_to_improve,      \* the hysteresis counter
    failure,                  \* the flag of line 120
    clock,                    \* the next value datetime.utcnow returns
    runs,                     \* invocations of the binary started so far
    attempts,                 \* history: invocations made per configuration
    processed,                \* history: the configurations evaluated, in order
    last,                     \* history: the latest evaluation
    output,                   \* the text the latest invocation printed
    parsed,                   \* what run_benchmark made of it
    stop,                     \* history: why the sweep ended ("" while running)
    threads,                  \* benchmark.py: the loop variable of run_benchmarks
    best_average              \* benchmark.py: the best average nps so far

vars == <<kind, repetitions, max_failures_to_improve, min_final_threads, pc,
          consumed, params, results, best_values, failures_to_improve,
          failure, clock, runs, attempts, processed, last, output, parsed,
          stop, threads, best_average>>

----------------------------------------------------------------------------
(* Bounds of the model *)

MaxRepetitions == 2
MaxFailures == 2
MaxVcpu == 3
MaxConfigs == 4
MaxRuns == 3
MaxSeriesRuns == 2
MaxLines == 5
MaxLegacyRuns == 6

(* Program constants *)

DefaultDepth == 14
DefaultTtSize == 16
\* total_time_ms of line 117: 1000000000000 ms, in units of 10^9 ms
InitialTotalTime == 1000

(* The metric values one invocation may report *)
NpsValues == {1, 2, 3}
NodesValues == {1, 2}
TimeValues == {1, InitialTotalTime + 1}

----------------------------------------------------------------------------
(* Data model *)

BenchParams(t, s, d) == [threads |-> t, tt_size_mb |-> s, depth |-> d]

BenchResult(n, s, t, at) ==
    [nps |-> n, nodes_searched |-> s, total_time_ms |-> t, time |-> at]

RESULT_KEYS ==
    ("Nodes/second" :> "nps") @@ ("Nodes searched" :> "nodes_searched")
        @@ ("Total time (ms)" :> "total_time_ms")

SeriesParamsSet ==
    {BenchParams(1, DefaultTtSize, DefaultDepth),
     BenchParams(2, 2 * DefaultTtSize, DefaultDepth)}

----------------------------------------------------------------------------
(* Exact arithmetic for statistics.mean *)

RECURSIVE Gcd(_, _)
Gcd(a, b) == IF b = 0 THEN a ELSE Gcd(b, a % b)

Frac(n, d) == LET g == Gcd(n, d) IN [num |-> n \div g, den |-> d \div g]

Whole(n) == [num |-> n, den |-> 1]

Gt(a, b) == a.num * b.den > b.num * a.den

Lt(a, b) == a.num * b.den < b.num * a.den

\* Python's max and min return the first argument on a tie
PyMax(a, b) == IF Gt(b, a) THEN b ELSE a

PyMin(a, b) == IF Lt(b, a) THEN b ELSE a

RECURSIVE SumOf(_, _)
SumOf(rs, field) ==
    IF rs = <<>> THEN 0 ELSE rs[1][field] + SumOf(Tail(rs), field)

RECURSIVE MaxTime(_)
MaxTime(rs) ==
    IF Len(rs) = 1 THEN rs[1].time
    ELSE LET m == MaxTime(Tail(rs)) IN IF rs[1].time >= m THEN rs[1].time ELSE m

Mean_Floor(rs, field) == Whole(SumOf(rs, field) \div Len(rs))

Mean(rs, field) == Frac(SumOf(rs, field), Len(rs))

----------------------------------------------------------------------------
(* run_benchmark: the output of one invocation and its parsing *)

\* A line that the pattern of line 79 matches, as its two groups
Labelled(label, val) == [matched |-> TRUE, label |-> label, val |-> val]

\* A line that the pattern does not match
Unmatched == [matched |-> FALSE, label |-> "", val |-> 0]

\* The outputs an invocation may print: the summary block of a run reporting
\* n, s and t after the search trace, the blocks that lack one of the three
\* lines, a block ending in a line of another label, and no output at all
Outputs ==
    LET nps(n) == Labelled("Nodes/second", n)
        nodes(n) == Labelled("Nodes searched", n)
        total(n) == Labelled("Total time (ms)", n)
        other(n) == Labelled("Hash full", n)
    IN  {<<Unmatched, total(t), nodes(s), nps(n)>> :
            n \in NpsValues, s \in NodesValues, t \in TimeValues}
        \cup {<<Unmatched, total(1), nodes(1)>>,
              <<Unmatched, total(1), nps(1)>>,
              <<Unmatched, nodes(1), nps(1)>>,
              <<Unmatched, nps(1), other(1)>>,
              <<>>}

\* The lines and texts run_benchmark is given when main calls it alone
LineValues == {1, 2}

Lines ==
    {Unmatched}
        \cup {Labelled(l, v) :
                 l \in DOMAIN RESULT_KEYS \cup {"Hash full"}, v \in LineValues}

Texts == UNION {[1..n -> Lines] : n \in 0..MaxLines}

BenchResultFields == {"nps", "nodes_searched", "total_time_ms", "time"}

RECURSIVE ScanLines_SkipsUnmatched(_, _, _)
ScanLines_SkipsUnmatched(lines, i, vals) ==
    IF i = 0
    THEN [error |-> "", vals |-> vals]
    ELSE IF ~lines[i].matched
         THEN ScanLines_SkipsUnmatched(lines, i - 1, vals)
         ELSE IF lines[i].label \notin DOMAIN RESULT_KEYS
              THEN [error |-> "KeyError", vals |-> vals]
              ELSE ScanLines_SkipsUnmatched(
                       lines, i - 1,
                       (RESULT_KEYS[lines[i].label] :> lines[i].val) @@ vals)

\* The loop of lines 78-83 from line i upwards; error is the exception raised
RECURSIVE ScanLines(_, _, _)
ScanLines(lines, i, vals) ==
    IF i = 0 \/ ~lines[i].matched
    THEN [error |-> "", vals |-> vals]
    ELSE IF lines[i].label \notin DOMAIN RESULT_KEYS
         THEN [error |-> "KeyError", vals |-> vals]
         ELSE ScanLines(lines, i - 1,
                        (RESULT_KEYS[lines[i].label] :> lines[i].val) @@ vals)

run_benchmark_Defaults(text, now) ==
    LET scan == ScanLines(text, Len(text),
                          [f \in BenchResultFields |-> IF f = "time" THEN now ELSE 0])
    IN  IF scan.error # ""
        THEN [error |-> scan.error, result |-> BenchResult(0, 0, 0, now)]
        ELSE [error |-> "",
              result |-> BenchResult(scan.vals["nps"],
                                     scan.vals["nodes_searched"],
                                     scan.vals["total_time_ms"],
                                     scan.vals["time"])]

\* Lines 77-86 for an invocation that exited 0 and printed text at time now
run_benchmark(text, now) ==
    LET scan == ScanLines(text, Len(text), "time" :> now)
    IN  IF scan.error # ""
        THEN [error |-> scan.error, result |-> BenchResult(0, 0, 0, now)]
        ELSE IF DOMAIN scan.vals # BenchResultFields
             THEN [error |-> "TypeError", result |-> BenchResult(0, 0, 0, now)]
             ELSE [error |-> "",
                   result |-> BenchResult(scan.vals["nps"],
                                          scan.vals["nodes_searched"],
                                          scan.vals["total_time_ms"],
                                          scan.vals["time"])]

----------------------------------------------------------------------------
(* The reducers *)

get_average_result(rs) ==
    [nps |-> Mean(rs, "nps"),
     nodes_searched |-> Mean(rs, "nodes_searched"),
     total_time_ms |-> Mean(rs, "total_time_ms"),
     time |-> MaxTime(rs)]

has_improvement_All(result, best_so_far) ==
    /\ Gt(result.nps, best_so_far.nps)
    /\ Gt(result.nodes_searched, best_so_far.nodes_searched)
    /\ Lt(result.total_time_ms, best_so_far.total_time_ms)

has_improvement_OrEqual(result, best_so_far) ==
    \/ ~Lt(result.nps, best_so_far.nps)
    \/ Gt(result.nodes_searched, best_so_far.nodes_searched)
    \/ Lt(result.total_time_ms, best_so_far.total_time_ms)

has_improvement(result, best_so_far) ==
    \/ Gt(result.nps, best_so_far.nps)
    \/ Gt(result.nodes_searched, best_so_far.nodes_searched)
    \/ Lt(result.total_time_ms, best_so_far.total_time_ms)

get_best_values_Latest(result1, result2) == result1

get_best_values_TieTakesTime(result1, result2) ==
    [nps |-> PyMax(result1.nps, result2.nps),
     nodes_searched |-> PyMax(result1.nodes_searched, result2.nodes_searched),
     total_time_ms |-> PyMin(result1.total_time_ms, result2.total_time_ms),
     time |-> IF ~Lt(result1.nps, result2.nps) THEN result1.time ELSE result2.time]

get_best_values(result1, result2) ==
    [nps |-> PyMax(result1.nps, result2.nps),
     nodes_searched |-> PyMax(result1.nodes_searched, result2.nodes_searched),
     total_time_ms |-> PyMin(result1.total_time_ms, result2.total_time_ms),
     time |-> IF Gt(result1.nps, result2.nps) THEN result1.time ELSE result2.time]

\* The condition of line 121
NeedsRun_Inclusive(rs, reps) == Len(rs) <= reps

NeedsRun(rs, reps) == Len(rs) < reps

\* The condition of line 139
ShouldBreak_Strict(force, failures, max_failures) ==
    ~force /\ failures > max_failures

ShouldBreak_IgnoresForce(force, failures, max_failures) ==
    failures >= max_failures

ShouldBreak_Early(force, failures, max_failures) ==
    ~force /\ failures + 1 >= max_failures

ShouldBreak(force, failures, max_failures) ==
    ~force /\ failures >= max_failures

----------------------------------------------------------------------------
(* The callers' configuration sequences and force_continue predicates *)

NoParams == BenchParams(0, 0, 0)

RECURSIVE Pow2(_)
Pow2(n) == IF n = 0 THEN 1 ELSE 2 * Pow2(n - 1)

\* What the iterator can yield as configuration number n + 1
NextParamsOf(k, n) ==
    CASE k = "threads" -> {BenchParams(n + 1, DefaultTtSize, DefaultDepth)}
      [] k = "ttsize" -> {BenchParams(1, DefaultTtSize * Pow2(n), DefaultDepth)}
      [] OTHER -> SeriesParamsSet

\* What force_continue(p) can return
ForceContinueOf(k, p, min_threads) ==
    CASE k = "threads" -> {p.threads < min_threads}
      [] k = "ttsize" -> {FALSE}
      [] OTHER -> BOOLEAN

----------------------------------------------------------------------------
(* run_series *)

NoEvaluation ==
    [params |-> NoParams, average |-> BenchResult(Whole(0), Whole(0), Whole(0), 0),
     best_before |-> BenchResult(Whole(0), Whole(0), Whole(0), 0),
     improved |-> FALSE, failures |-> 0, called |-> FALSE, force |-> FALSE]

\* Before run_benchmark has returned or raised
NotRun == [error |-> "none", result |-> BenchResult(0, 0, 0, 0)]

\* Lines 116-118, for the entry point k
InitOf(k, min_threads) ==
    /\ kind = k
    /\ repetitions \in 0..MaxRepetitions
    /\ max_failures_to_improve \in 0..MaxFailures
    /\ min_final_threads \in min_threads
    /\ pc = "for"
    /\ consumed = 0
    /\ params = NoParams
    /\ results = [p \in {} |-> <<>>]
    /\ best_values = BenchResult(Whole(0), Whole(0), Whole(InitialTotalTime), 0)
    /\ failures_to_improve = 0
    /\ failure = FALSE
    /\ clock = 1
    /\ runs = 0
    /\ attempts = [p \in {} |-> 0]
    /\ processed = <<>>
    /\ last = NoEvaluation
    /\ output = <<>>
    /\ parsed = NotRun
    /\ stop = ""
    /\ threads = 0
    /\ best_average = Whole(0)

\* run_series called with any iterator and any force_continue
Init == InitOf("series", {0})

\* run_varying_threads
InitThreads == InitOf("threads", 1..MaxVcpu)

\* run_varying_ttsize
InitTtsize == InitOf("ttsize", {0})

\* An invocation that never exits blocks the sweep: the model follows a sweep
\* for this many invocations
RunsFollowed == IF kind = "series" THEN MaxSeriesRuns ELSE MaxRuns

config == <<kind, repetitions, max_failures_to_improve, min_final_threads>>

io == <<output, parsed>>

legacy == <<threads, best_average>>

\* results[p] on a defaultdict(list): a missing key is created empty
Touch_Clears(table, p) == (p :> <<>>) @@ table

Touch(table, p) ==
    IF p \in DOMAIN table THEN table ELSE (p :> <<>>) @@ table

CountOf(counts, p) == IF p \in DOMAIN counts THEN counts[p] ELSE 0

\* Line 119: the iterator yields the next configuration; line 121 looks it up
NextParams ==
    /\ pc = "for"
    /\ consumed < MaxConfigs
    /\ \E p \in NextParamsOf(kind, consumed) :
          /\ params' = p
          /\ results' = Touch(results, p)
    /\ consumed' = consumed + 1
    /\ failure' = FALSE
    /\ pc' = "while"
    /\ UNCHANGED <<config, legacy, io, best_values, failures_to_improve, clock, runs,
                   attempts, processed, last, stop>>

\* Line 119: the iterator is exhausted; line 142
SeriesExhausted ==
    /\ pc = "for"
    /\ kind = "series"
    /\ pc' = "returned"
    /\ stop' = "exhausted"
    /\ UNCHANGED <<config, legacy, io, consumed, params, results, best_values,
                   failures_to_improve, failure, clock, runs, attempts,
                   processed, last>>

\* Lines 121-124: an invocation exits 0 and its output parses
BenchmarkCompleted ==
    /\ pc = "while"
    /\ NeedsRun(results[params], repetitions)
    /\ runs < RunsFollowed
    /\ \E text \in Outputs :
          LET r == run_benchmark(text, clock)
          IN  /\ r.error = ""
              /\ output' = text
              /\ parsed' = r
              /\ results' = [results EXCEPT ![params] = Append(@, r.result)]
    /\ clock' = clock + 1
    /\ runs' = runs + 1
    /\ attempts' = (params :> CountOf(attempts, params) + 1) @@ attempts
    /\ UNCHANGED <<config, legacy, pc, consumed, params, best_values,
                   failures_to_improve, failure, processed, last, stop>>

BenchmarkFailed_RollsBack ==
    /\ pc = "while"
    /\ NeedsRun(results[params], repetitions)
    /\ runs < RunsFollowed
    /\ failure' = TRUE
    /\ pc' = "returned"
    /\ stop' = "failure"
    /\ runs' = runs + 1
    /\ attempts' = (params :> CountOf(attempts, params) + 1) @@ attempts
    /\ results' = [results EXCEPT ![params] = <<>>]
    /\ UNCHANGED <<config, legacy, io, consumed, params, best_values,
                   failures_to_improve, clock, processed, last>>

BenchmarkFailed_SkipsOn ==
    /\ pc = "while"
    /\ NeedsRun(results[params], repetitions)
    /\ runs < RunsFollowed
    /\ failure' = TRUE
    /\ pc' = "for"
    /\ stop' = "failure"
    /\ runs' = runs + 1
    /\ attempts' = (params :> CountOf(attempts, params) + 1) @@ attempts
    /\ UNCHANGED <<config, legacy, io, consumed, params, results, best_values,
                   failures_to_improve, clock, processed, last>>

\* Lines 121-130, 142: an invocation exits non-zero
BenchmarkFailed ==
    /\ pc = "while"
    /\ NeedsRun(results[params], repetitions)
    /\ runs < RunsFollowed
    /\ failure' = TRUE
    /\ pc' = "returned"
    /\ stop' = "failure"
    /\ runs' = runs + 1
    /\ attempts' = (params :> CountOf(attempts, params) + 1) @@ attempts
    /\ UNCHANGED <<config, legacy, io, consumed, params, results, best_values,
                   failures_to_improve, clock, processed, last>>

\* Lines 121-123: an invocation exits 0 and run_benchmark raises
BenchmarkUnparsed ==
    /\ pc = "while"
    /\ NeedsRun(results[params], repetitions)
    /\ runs < RunsFollowed
    /\ \E text \in Outputs :
          LET r == run_benchmark(text, clock)
          IN  /\ r.error # ""
              /\ output' = text
              /\ parsed' = r
              /\ stop' = r.error
    /\ pc' = "raised"
    /\ clock' = clock + 1
    /\ runs' = runs + 1
    /\ attempts' = (params :> CountOf(attempts, params) + 1) @@ attempts
    /\ UNCHANGED <<config, legacy, consumed, params, results, best_values,
                   failures_to_improve, failure, processed, last>>

\* Lines 121, 131: get_average_result of an empty list raises
AverageOfNothing ==
    /\ pc = "while"
    /\ ~NeedsRun(results[params], repetitions)
    /\ results[params] = <<>>
    /\ pc' = "raised"
    /\ stop' = "IndexError"
    /\ UNCHANGED <<config, legacy, io, consumed, params, results, best_values,
                   failures_to_improve, failure, clock, runs, attempts,
                   processed, last>>

Evaluated(average, improved, failures, called, force) ==
    [params |-> params, average |-> average, best_before |-> best_values,
     improved |-> improved, failures |-> failures, called |-> called,
     force |-> force]

ConfigurationImproved_KeepsCounter ==
    /\ pc = "while"
    /\ ~NeedsRun(results[params], repetitions)
    /\ results[params] # <<>>
    /\ LET average == get_average_result(results[params])
       IN  /\ has_improvement(average, best_values)
           /\ best_values' = get_best_values(average, best_values)
           /\ last' = Evaluated(average, TRUE, failures_to_improve, FALSE, FALSE)
    /\ processed' = Append(processed, params)
    /\ pc' = "for"
    /\ UNCHANGED <<config, legacy, io, consumed, params, results, failures_to_improve,
                   failure, clock, runs, attempts, stop>>

\* Lines 121, 131-135: the average improves on the best values
ConfigurationImproved ==
    /\ pc = "while"
    /\ ~NeedsRun(results[params], repetitions)
    /\ results[params] # <<>>
    /\ LET average == get_average_result(results[params])
       IN  /\ has_improvement(average, best_values)
           /\ failures_to_improve' = 0
           /\ best_values' = get_best_values(average, best_values)
           /\ last' = Evaluated(average, TRUE, 0, FALSE, FALSE)
    /\ processed' = Append(processed, params)
    /\ pc' = "for"
    /\ UNCHANGED <<config, legacy, io, consumed, params, results, failure, clock, runs,
                   attempts, stop>>

\* Lines 121, 131-132, 136-140, 142: the average does not improve
ConfigurationNotImproved ==
    /\ pc = "while"
    /\ ~NeedsRun(results[params], repetitions)
    /\ results[params] # <<>>
    /\ LET average == get_average_result(results[params])
       IN  /\ ~has_improvement(average, best_values)
           /\ failures_to_improve' = failures_to_improve + 1
           /\ \E force \in ForceContinueOf(kind, params, min_final_threads) :
                 /\ last' = Evaluated(average, FALSE,
                                      failures_to_improve + 1, TRUE, force)
                 /\ IF ShouldBreak(force, failures_to_improve + 1,
                                   max_failures_to_improve)
                    THEN pc' = "returned" /\ stop' = "hysteresis"
                    ELSE pc' = "for" /\ stop' = stop
    /\ processed' = Append(processed, params)
    /\ UNCHANGED <<config, legacy, io, consumed, params, results, best_values, failure,
                   clock, runs, attempts>>

Next ==
    \/ NextParams
    \/ SeriesExhausted
    \/ BenchmarkCompleted
    \/ BenchmarkFailed
    \/ BenchmarkUnparsed
    \/ AverageOfNothing
    \/ ConfigurationImproved
    \/ ConfigurationNotImproved

\* The iterators of lines 155 and 171 never end
NextUnending ==
    \/ NextParams
    \/ BenchmarkCompleted
    \/ BenchmarkFailed
    \/ BenchmarkUnparsed
    \/ AverageOfNothing
    \/ ConfigurationImproved
    \/ ConfigurationNotImproved

\* main with --quick: one call of run_benchmark, outside run_series
InitQuick ==
    /\ kind = "quick"
    /\ repetitions = 0
    /\ max_failures_to_improve = 0
    /\ min_final_threads = 0
    /\ pc = "quick"
    /\ consumed = 0
    /\ params = BenchParams(1, DefaultTtSize, DefaultDepth)
    /\ results = [p \in {} |-> <<>>]
    /\ best_values = BenchResult(Whole(0), Whole(0), Whole(InitialTotalTime), 0)
    /\ failures_to_improve = 0
    /\ failure = FALSE
    /\ clock = 1
    /\ runs = 0
    /\ attempts = [p \in {} |-> 0]
    /\ processed = <<>>
    /\ last = NoEvaluation
    /\ output = <<>>
    /\ parsed = NotRun
    /\ stop = ""
    /\ threads = 0
    /\ best_average = Whole(0)

sweep == <<consumed, params, results, best_values, failures_to_improve,
           failure, attempts, processed, last>>

\* Line 313: the invocation exits 0 and its output parses
QuickCompleted ==
    /\ pc = "quick"
    /\ \E text \in Texts :
          LET r == run_benchmark(text, clock)
          IN  /\ r.error = ""
              /\ output' = text
              /\ parsed' = r
    /\ pc' = "returned"
    /\ clock' = clock + 1
    /\ runs' = runs + 1
    /\ UNCHANGED <<config, legacy, sweep, stop>>

\* Line 313: the invocation exits 0 and run_benchmark raises
QuickUnparsed ==
    /\ pc = "quick"
    /\ \E text \in Texts :
          LET r == run_benchmark(text, clock)
          IN  /\ r.error # ""
              /\ output' = text
              /\ parsed' = r
              /\ stop' = r.error
    /\ pc' = "raised"
    /\ clock' = clock + 1
    /\ runs' = runs + 1
    /\ UNCHANGED <<config, legacy, sweep>>

\* Line 313: the invocation exits non-zero
QuickFailed ==
    /\ pc = "quick"
    /\ pc' = "raised"
    /\ stop' = "CalledProcessError"
    /\ runs' = runs + 1
    /\ UNCHANGED <<config, legacy, sweep, io, clock>>

NextQuick ==
    \/ QuickCompleted
    \/ QuickUnparsed
    \/ QuickFailed

Spec == Init /\ [][Next]_vars

SpecQuick == InitQuick /\ [][NextQuick]_vars

----------------------------------------------------------------------------
(* benchmark.py: run_benchmark and run_benchmarks *)

\* benchmark.py lines 37-42 from line i upwards: every label is kept
RECURSIVE LegacyScanLines(_, _, _)
LegacyScanLines(lines, i, result) ==
    IF i = 0 \/ ~lines[i].matched
    THEN result
    ELSE LegacyScanLines(lines, i - 1, (lines[i].label :> lines[i].val) @@ result)

\* benchmark.py lines 35-44: the mapping run_benchmark returns
LegacyRunBenchmark(text) == LegacyScanLines(text, Len(text), <<>>)

RECURSIVE LegacySum(_)
LegacySum(values) ==
    IF values = <<>> THEN 0 ELSE values[1] + LegacySum(Tail(values))

\* benchmark.py line 60: statistics.mean of a non-empty list
LegacyMean(values) == Frac(LegacySum(values), Len(values))

LegacyShouldBreak_AtMinimum(t, failures, max_failures, min_threads) ==
    t >= min_threads /\ failures >= max_failures

\* benchmark.py line 68
LegacyShouldBreak(t, failures, max_failures, min_threads) ==
    t > min_threads /\ failures >= max_failures

\* benchmark.py lines 54-56, called by main with the machine's CPU count
InitLegacy ==
    /\ kind = "legacy"
    /\ repetitions \in 0..MaxRepetitions
    /\ max_failures_to_improve \in 0..MaxFailures
    /\ min_final_threads \in 1..MaxVcpu
    /\ pc = "for"
    /\ threads = 0
    /\ results = [t \in {} |-> <<>>]
    /\ best_average = Whole(0)
    /\ failures_to_improve = 0
    /\ runs = 0
    /\ stop = ""
    /\ consumed = 0
    /\ params = NoParams
    /\ best_values = BenchResult(Whole(0), Whole(0), Whole(InitialTotalTime), 0)
    /\ failure = FALSE
    /\ clock = 1
    /\ attempts = [p \in {} |-> 0]
    /\ processed = <<>>
    /\ last = NoEvaluation
    /\ output = <<>>
    /\ parsed = NotRun

unused == <<consumed, params, best_values, failure, clock, attempts,
            processed, last, io>>

\* benchmark.py line 57: the next thread count; line 58 looks it up
LegacyNextThreads ==
    /\ pc = "for"
    /\ threads < MaxConfigs
    /\ threads' = threads + 1
    /\ results' = Touch(results, threads + 1)
    /\ pc' = "while"
    /\ UNCHANGED <<config, unused, best_average, failures_to_improve, runs,
                   stop>>

\* benchmark.py lines 58-60: the invocation exits 0 and reports Nodes/second
LegacyBenchmarkCompleted ==
    /\ pc = "while"
    /\ Len(results[threads]) < repetitions
    /\ runs < MaxLegacyRuns
    /\ \E text \in Outputs :
          LET result == LegacyRunBenchmark(text)
          IN  /\ "Nodes/second" \in DOMAIN result
              /\ results' = [results EXCEPT
                               ![threads] = Append(@, result["Nodes/second"])]
    /\ runs' = runs + 1
    /\ UNCHANGED <<config, unused, pc, threads, best_average,
                   failures_to_improve, stop>>

\* benchmark.py lines 59-60: the output has no Nodes/second line
LegacyBenchmarkUnparsed ==
    /\ pc = "while"
    /\ Len(results[threads]) < repetitions
    /\ runs < MaxLegacyRuns
    /\ \E text \in Outputs : "Nodes/second" \notin DOMAIN LegacyRunBenchmark(text)
    /\ pc' = "raised"
    /\ stop' = "KeyError"
    /\ runs' = runs + 1
    /\ UNCHANGED <<config, unused, threads, results, best_average,
                   failures_to_improve>>

\* benchmark.py line 59: the invocation exits non-zero; nothing catches it
LegacyBenchmarkFailed ==
    /\ pc = "while"
    /\ Len(results[threads]) < repetitions
    /\ runs < MaxLegacyRuns
    /\ pc' = "raised"
    /\ stop' = "CalledProcessError"
    /\ runs' = runs + 1
    /\ UNCHANGED <<config, unused, threads, results, best_average,
                   failures_to_improve>>

\* benchmark.py lines 58, 61: statistics.mean of an empty list raises
LegacyAverageOfNothing ==
    /\ pc = "while"
    /\ ~(Len(results[threads]) < repetitions)
    /\ results[threads] = <<>>
    /\ pc' = "raised"
    /\ stop' = "StatisticsError"
    /\ UNCHANGED <<config, unused, threads, results, best_average,
                   failures_to_improve, runs>>

\* benchmark.py lines 61-65: the average is above the best average
LegacyImproved ==
    /\ pc = "while"
    /\ ~(Len(results[threads]) < repetitions)
    /\ results[threads] # <<>>
    /\ LET average == LegacyMean(results[threads])
       IN  /\ Gt(average, best_average)
           /\ failures_to_improve' = 0
           /\ best_average' = average
    /\ pc' = "for"
    /\ UNCHANGED <<config, unused, threads, results, runs, stop>>

\* benchmark.py lines 61-62, 66-70, 72: the average is not above it
LegacyNotImproved ==
    /\ pc = "while"
    /\ ~(Len(results[threads]) < repetitions)
    /\ results[threads] # <<>>
    /\ ~Gt(LegacyMean(results[threads]), best_average)
    /\ failures_to_improve' = failures_to_improve + 1
    /\ IF LegacyShouldBreak(threads, failures_to_improve + 1,
                            max_failures_to_improve, min_final_threads)
       THEN pc' = "returned" /\ stop' = "hysteresis"
       ELSE pc' = "for" /\ stop' = stop
    /\ UNCHANGED <<config, unused, threads, results, best_average, runs>>

NextLegacy ==
    \/ LegacyNextThreads
    \/ LegacyBenchmarkCompleted
    \/ LegacyBenchmarkUnparsed
    \/ LegacyBenchmarkFailed
    \/ LegacyAverageOfNothing
    \/ LegacyImproved
    \/ LegacyNotImproved

SpecLegacy == InitLegacy /\ [][NextLegacy]_vars

SpecThreads == InitThreads /\ [][NextUnending]_vars

\* run_series is sequential code: while a statement can run, one does
SpecThreadsFair == SpecThreads /\ WF_vars(NextUnending)

SpecTtsize == InitTtsize /\ [][NextUnending]_vars

----------------------------------------------------------------------------
(* Properties *)

\* The aggregate of the i-th evaluated configuration
AggregateOf(i) == get_average_result(results[processed[i]])

Errors == {"TypeError", "KeyError", "IndexError"}

\* C1 as stated: after any evaluated configuration, improving or not, the
\* sweep has stopped by hysteresis whenever failures_to_improve >=
\* max_failures_to_improve and force_continue is false for the configuration
\* (for the callers whose force_continue is a known function).
C1_StopsAfterAnyConfiguration ==
    (/\ processed # <<>>
     /\ ForceContinueOf(kind, last.params, min_final_threads) = {FALSE}
     /\ failures_to_improve >= max_failures_to_improve)
        => stop = "hysteresis"

\* C1, amended: after a configuration that was evaluated as not improving,
\* if force_continue returned false and failures_to_improve >=
\* max_failures_to_improve (0 included), run_series has returned without
\* consuming a further configuration.
C1_StopsAfterNonImprovement ==
    (/\ processed # <<>>
     /\ ~last.improved
     /\ ~last.force
     /\ last.failures >= max_failures_to_improve)
        => /\ pc = "returned"
           /\ stop = "hysteresis"
           /\ consumed = Len(processed)
           /\ failures_to_improve = last.failures

C1_Witness ==
    /\ stop = "hysteresis"
    /\ max_failures_to_improve = 0
    /\ ~last.improved
    /\ ~last.force

\* The aggregates evaluated so far have strictly decreasing nps
NpsDecreasing ==
    \A i \in 2..Len(processed) :
        Gt(AggregateOf(i - 1).nps, AggregateOf(i).nps)

\* The aggregates evaluated so far never improve nodes_searched or
\* total_time_ms on their predecessor
OthersNotImproving ==
    \A i \in 2..Len(processed) :
        /\ ~Gt(AggregateOf(i).nodes_searched, AggregateOf(i - 1).nodes_searched)
        /\ ~Lt(AggregateOf(i).total_time_ms, AggregateOf(i - 1).total_time_ms)

\* C2 as stated: with max_failures_to_improve = 2, force_continue always
\* false and aggregates of strictly decreasing nps (nodes_searched and
\* total_time_ms unconstrained), once 3 configurations are evaluated the
\* sweep has stopped, having evaluated exactly 3.
C2_StopsAfterThreeOnNpsAlone ==
    (/\ max_failures_to_improve = 2
     /\ Len(processed) >= 3
     /\ NpsDecreasing)
        => (Len(processed) = 3 /\ stop = "hysteresis")

\* C2, amended: with max_failures_to_improve = 2, force_continue always
\* false and aggregates whose nps strictly decreases while nodes_searched
\* does not increase and total_time_ms does not decrease, the sweep does
\* not stop by hysteresis before the third configuration and has stopped,
\* having consumed exactly 3 configurations, once the third is evaluated.
C2_StopsAfterThree ==
    (/\ max_failures_to_improve = 2
     /\ NpsDecreasing
     /\ OthersNotImproving)
        => /\ Len(processed) <= 3
           /\ Len(processed) = 3 => (stop = "hysteresis" /\ consumed = 3)
           /\ Len(processed) < 3 => stop # "hysteresis"

C2_Witness ==
    /\ max_failures_to_improve = 2
    /\ Len(processed) = 3
    /\ NpsDecreasing
    /\ OthersNotImproving
    /\ stop = "hysteresis"

\* C3: when an invocation has failed on the j-th repetition of a
\* configuration, run_series has returned, nothing more can run, the table
\* holds j - 1 results for that configuration and `repetitions` results for
\* every configuration consumed before it.
C3_FailureKeepsPartialResults ==
    stop = "failure" =>
        /\ pc = "returned"
        /\ ~ENABLED Next
        /\ Len(results[params]) = attempts[params] - 1
        /\ consumed = Len(processed) + 1
        /\ \A i \in 1..Len(processed) :
              Len(results[processed[i]]) = repetitions

C3_Witness ==
    /\ stop = "failure"
    /\ attempts[params] = 2
    /\ Len(results[params]) = 1

\* C4 as stated: when an invocation exits 0 and its trailing block lacks a
\* required metric, run_series ends the sweep and returns the Result Table.
C4_MissingMetricReturnsTable ==
    stop = "TypeError" => pc = "returned"

\* C5: in run_varying_threads the sweep never stops by hysteresis at a
\* thread count below min_final_threads, and when it has stopped by
\* hysteresis every thread count 1..min_final_threads has been run
\* `repetitions` times.
C5_ForcedThroughMinFinalThreads ==
    stop = "hysteresis" =>
        /\ last.called /\ ~last.force
        /\ ~(params.threads < min_final_threads)
        /\ \A t \in 1..min_final_threads :
              LET p == BenchParams(t, DefaultTtSize, DefaultDepth)
              IN  /\ p \in DOMAIN results
                  /\ Len(results[p]) = repetitions
                  /\ repetitions >= 1

C5_Witness ==
    /\ stop = "hysteresis"
    /\ min_final_threads = 3
    /\ params.threads = 3
    /\ failures_to_improve > max_failures_to_improve

\* C6: the Result Table never holds more than `repetitions` results for a
\* configuration, also when the iterator yields a configuration again.
C6_AtMostRepetitionsPerKey ==
    \A p \in DOMAIN results : Len(results[p]) <= repetitions

C6_Witness ==
    /\ repetitions = 2
    /\ Len(processed) = 2
    /\ processed[1] = processed[2]
    /\ Len(results[params]) = 2

\* C7: in run_varying_threads the configurations are consumed in the order
\* 1, 2, 3, ...; every configuration before the current one holds exactly
\* `repetitions` results, no later one has been looked up, and once an
\* invocation has failed or raised no configuration is consumed.
C7_InOrderAfterFullRepetitions ==
    /\ consumed > 0 =>
          params = BenchParams(consumed, DefaultTtSize, DefaultDepth)
    /\ \A p \in DOMAIN results :
          /\ p = BenchParams(p.threads, DefaultTtSize, DefaultDepth)
          /\ p.threads \in 1..consumed
          /\ p.threads < consumed => Len(results[p]) = repetitions
    /\ \A i \in 1..Len(processed) :
          processed[i] = BenchParams(i, DefaultTtSize, DefaultDepth)
    /\ stop \in {"failure"} \cup Errors => ~ENABLED NextParams

C7_Witness ==
    /\ consumed = 2
    /\ repetitions = 2
    /\ Len(results[params]) = 1

\* C8: from one step to the next the tracker's nps and nodes_searched never
\* decrease and its total_time_ms never increases.
C8_TrackerMonotonic ==
    [][/\ ~Lt(best_values'.nps, best_values.nps)
       /\ ~Lt(best_values'.nodes_searched, best_values.nodes_searched)
       /\ ~Gt(best_values'.total_time_ms, best_values.total_time_ms)]_vars

C8_Witness ==
    /\ last.improved
    /\ Lt(last.average.nps, last.best_before.nps)
    /\ Gt(last.average.total_time_ms, last.best_before.total_time_ms)
    /\ best_values.nps = last.best_before.nps

\* C9 as stated: once a configuration is evaluated, the tracker's nps and
\* nodes_searched are the maxima, and its total_time_ms the minimum, over the
\* aggregates evaluated so far.
C9_TrackerIsExtremeOfAggregates ==
    processed # <<>> =>
        /\ \E i \in 1..Len(processed) :
              /\ AggregateOf(i).nps = best_values.nps
              /\ \A j \in 1..Len(processed) :
                    ~Gt(AggregateOf(j).nps, best_values.nps)
        /\ \E i \in 1..Len(processed) :
              /\ AggregateOf(i).nodes_searched = best_values.nodes_searched
              /\ \A j \in 1..Len(processed) :
                    ~Gt(AggregateOf(j).nodes_searched, best_values.nodes_searched)
        /\ \E i \in 1..Len(processed) :
              /\ AggregateOf(i).total_time_ms = best_values.total_time_ms
              /\ \A j \in 1..Len(processed) :
                    ~Lt(AggregateOf(j).total_time_ms, best_values.total_time_ms)

\* C10: the latest evaluation was taken as an improvement exactly when its
\* aggregate was strictly better than the tracker on at least one metric:
\* each single better metric suffices, and none better means no improvement.
C10_ImprovementIsAnyMetricBetter ==
    processed # <<>> =>
        LET a == last.average
            b == last.best_before
        IN  /\ Gt(a.nps, b.nps) => last.improved
            /\ Gt(a.nodes_searched, b.nodes_searched) => last.improved
            /\ Lt(a.total_time_ms, b.total_time_ms) => last.improved
            /\ (/\ ~Gt(a.nps, b.nps)
                /\ ~Gt(a.nodes_searched, b.nodes_searched)
                /\ ~Lt(a.total_time_ms, b.total_time_ms)) => ~last.improved

C10_Witness ==
    /\ last.improved
    /\ Gt(last.average.nps, last.best_before.nps)
    /\ Lt(last.average.nodes_searched, last.best_before.nodes_searched)
    /\ Gt(last.average.total_time_ms, last.best_before.total_time_ms)

\* The tracker after the first i evaluations, recomputed from the table
RECURSIVE TrackerAfter(_)
TrackerAfter(i) ==
    IF i = 0
    THEN BenchResult(Whole(0), Whole(0), Whole(InitialTotalTime), 0)
    ELSE LET b == TrackerAfter(i - 1)
             a == AggregateOf(i)
         IN  IF \/ Gt(a.nps, b.nps)
                \/ Gt(a.nodes_searched, b.nodes_searched)
                \/ Lt(a.total_time_ms, b.total_time_ms)
             THEN get_best_values(a, b)
             ELSE b

\* The i-th evaluated configuration bettered some metric of the tracker
ImprovedAt(i) ==
    LET b == TrackerAfter(i - 1)
        a == AggregateOf(i)
    IN  \/ Gt(a.nps, b.nps)
        \/ Gt(a.nodes_searched, b.nodes_searched)
        \/ Lt(a.total_time_ms, b.total_time_ms)

\* The number of non-improving configurations at the end of the first n
RECURSIVE TrailingFailures(_)
TrailingFailures(n) ==
    IF n = 0 \/ ImprovedAt(n) THEN 0 ELSE 1 + TrailingFailures(n - 1)

\* C11: once a configuration is evaluated, failures_to_improve is the number
\* of consecutive non-improving configurations up to and including the
\* latest one (0 after an improving one), and when the sweep has stopped by
\* hysteresis the last max_failures_to_improve configurations evaluated were
\* all non-improving.
C11_CounterIsTrailingFailures ==
    processed # <<>> =>
        /\ failures_to_improve = TrailingFailures(Len(processed))
        /\ ImprovedAt(Len(processed)) => failures_to_improve = 0
        /\ stop = "hysteresis" =>
              /\ Len(processed) >= max_failures_to_improve
              /\ \A i \in 1..Len(processed) :
                    i > Len(processed) - max_failures_to_improve
                        => ~ImprovedAt(i)

C11_Witness ==
    /\ Len(processed) = 3
    /\ ~ImprovedAt(2)
    /\ ImprovedAt(3)
    /\ failures_to_improve = 0

\* The first line of the trailing block of text: every line from it to the
\* end matches the pattern, and the line before it, if any, does not
BlockStart(text) ==
    CHOOSE i \in 1..(Len(text) + 1) :
        /\ \A j \in i..Len(text) : text[j].matched
        /\ i > 1 => ~text[i - 1].matched

BlockLabels(text) == {text[j].label : j \in BlockStart(text)..Len(text)}

\* C12 as stated: when the trailing block holds the three recognized labels
\* and a line of another label, run_benchmark returns a BenchResult.
C12_UnrecognizedLabelIgnored ==
    (/\ parsed # NotRun
     /\ DOMAIN RESULT_KEYS \subseteq BlockLabels(output)
     /\ BlockLabels(output) # DOMAIN RESULT_KEYS)
        => parsed.error = ""

\* The value of the last three lines' line of label l
ValueOfLast3(text, l) ==
    LET j == CHOOSE k \in (Len(text) - 2)..Len(text) : text[k].label = l
    IN  text[j].val

\* The text ends in a non-matching line followed by the three recognized
\* labels, one line each, in some order
EndsInSummary(text) ==
    /\ Len(text) >= 4
    /\ ~text[Len(text) - 3].matched
    /\ {text[k].label : k \in (Len(text) - 2)..Len(text)} = DOMAIN RESULT_KEYS

\* C13: for a text that ends in a non-matching line followed by the three
\* recognized labels in any order, run_benchmark returns the BenchResult of
\* exactly those three values, whatever stands above the non-matching line.
C13_OnlyTrailingBlockRead ==
    (parsed # NotRun /\ EndsInSummary(output)) =>
        /\ parsed.error = ""
        /\ parsed.result.nps = ValueOfLast3(output, "Nodes/second")
        /\ parsed.result.nodes_searched = ValueOfLast3(output, "Nodes searched")
        /\ parsed.result.total_time_ms = ValueOfLast3(output, "Total time (ms)")

C13_Witness ==
    /\ pc = "returned"
    /\ Len(output) = 5
    /\ output[1] = Labelled("Nodes/second", 2)
    /\ output[3] = Labelled("Nodes/second", 1)
    /\ EndsInSummary(output)
    /\ parsed.result.nps = 1

RECURSIVE FieldTotal(_, _, _)
FieldTotal(rs, n, field) ==
    IF n = 0 THEN 0 ELSE rs[n][field] + FieldTotal(rs, n - 1, field)

\* C14: the aggregate of the configuration evaluated last has, in each of
\* nps, nodes_searched and total_time_ms, the sum of that field over the
\* group divided by the size of the group, and as time the latest timestamp
\* of the group.
C14_AverageIsMean ==
    last # NoEvaluation =>
        LET rs == results[last.params]
            n == Len(rs)
            a == last.average
        IN  /\ n >= 1
            /\ \A f \in {"nps", "nodes_searched", "total_time_ms"} :
                  /\ a[f].den >= 1
                  /\ a[f].num * n = FieldTotal(rs, n, f) * a[f].den
            /\ \E i \in 1..n : rs[i].time = a.time
            /\ \A i \in 1..n : rs[i].time <= a.time

C14_Witness ==
    /\ last # NoEvaluation
    /\ Len(results[last.params]) = 2
    /\ results[last.params][1].nps = 1
    /\ results[last.params][2].nps = 2
    /\ last.average.nps = [num |-> 3, den |-> 2]
    /\ last.average.time = results[last.params][2].time

\* The list the table holds for p, a key never looked up having none
ListOf(table, p) == IF p \in DOMAIN table THEN table[p] ELSE <<>>

\* C15: every step leaves each configuration's list as it was, except that a
\* step may append one result to the end of the list of the configuration
\* being run; no key is removed, and each list is in order of execution.
C15_AppendOnly ==
    /\ [](\A p \in DOMAIN results :
             \A i, j \in 1..Len(results[p]) :
                 i < j => results[p][i].time < results[p][j].time)
    /\ [][/\ DOMAIN results \subseteq DOMAIN results'
          /\ \A p \in DOMAIN results' :
                \/ ListOf(results', p) = ListOf(results, p)
                \/ /\ p = params
                   /\ pc = "while"
                   /\ Len(results'[p]) = Len(ListOf(results, p)) + 1
                   /\ SubSeq(results'[p], 1, Len(results'[p]) - 1)
                         = ListOf(results, p)]_vars

C15_Witness ==
    /\ pc = "while"
    /\ Len(results[params]) = 1
    /\ \E p \in DOMAIN results : p # params /\ Len(results[p]) = 1

\* C16: an invocation whose trailing block lacks one of the three recognized
\* labels makes run_benchmark raise, and the step leaves the Result Table as
\* it was.
C16_NoPartialResult ==
    [][(clock' # clock /\ ~(DOMAIN RESULT_KEYS \subseteq BlockLabels(output')))
          => /\ parsed'.error # ""
             /\ pc' = "raised"
             /\ results' = results]_vars

C16_Witness ==
    /\ pc = "raised"
    /\ stop = "TypeError"
    /\ Cardinality(BlockLabels(output)) = 2
    /\ \E p \in DOMAIN results : Len(results[p]) = 1

\* C17: the tracker's time is the time of the earliest evaluated aggregate
\* whose nps equals the tracker's nps, or the time the sweep started when no
\* aggregate had nps above 0; and an evaluation whose aggregate did not have
\* nps strictly above the tracker's left the tracker's time as it was.
C17_TimeFollowsBestNps ==
    LET attained == {i \in 1..Len(processed) :
                        /\ Gt(AggregateOf(i).nps, Whole(0))
                        /\ AggregateOf(i).nps = best_values.nps}
    IN  /\ IF \E i \in 1..Len(processed) : Gt(AggregateOf(i).nps, Whole(0))
           THEN /\ attained # {}
                /\ \A i \in attained :
                      (\A j \in attained : i <= j)
                          => best_values.time = AggregateOf(i).time
           ELSE best_values.time = 0
        /\ (last # NoEvaluation /\ ~Gt(last.average.nps, last.best_before.nps))
              => best_values.time = last.best_before.time

C17_Witness ==
    /\ Len(processed) = 2
    /\ processed[1] # processed[2]
    /\ last.improved
    /\ last.average.nps = last.best_before.nps
    /\ Gt(last.average.nodes_searched, last.best_before.nodes_searched)
    /\ best_values.time = AggregateOf(1).time
    /\ best_values.time # last.average.time

\* The sweep is followed no further: an invocation has not exited
Truncated ==
    \/ pc = "for" /\ consumed >= MaxConfigs
    \/ /\ pc = "while"
       /\ NeedsRun(results[params], repetitions)
       /\ runs >= RunsFollowed

GreatestOf(S) == CHOOSE x \in S : \A y \in S : y <= x
LeastOf(S) == CHOOSE x \in S : \A y \in S : x <= y

\* repetitions times a mean of repetitions integers, or times a whole number
Scaled(x) == (repetitions * x.num) \div x.den

\* How many times the tracker can still be bettered: the distance of each of
\* its fields, times repetitions, from the best value an aggregate can take
ImprovementsLeft ==
    (repetitions * GreatestOf(NpsValues) - Scaled(best_values.nps))
        + (repetitions * GreatestOf(NodesValues)
               - Scaled(best_values.nodes_searched))
        + (Scaled(best_values.total_time_ms) - repetitions * LeastOf(TimeValues))

\* The thread counts not yet evaluated for which force_continue is true
ForcedLeft ==
    IF min_final_threads - 1 > Len(processed)
    THEN min_final_threads - 1 - Len(processed) ELSE 0

FailuresLeft ==
    IF max_failures_to_improve > failures_to_improve
    THEN max_failures_to_improve - failures_to_improve ELSE 0

\* The statements left in the iteration of the for loop that is running
StepsLeft ==
    IF pc = "while"
    THEN repetitions - Len(results[params]) + 1
    ELSE repetitions + 2

Variant ==
    (ImprovementsLeft * (min_final_threads + max_failures_to_improve + 1)
         + ForcedLeft + FailuresLeft) * (repetitions + 3)
        + StepsLeft

\* C18 as stated: when no invocation fails or prints an unparsable output,
\* the sweep over thread counts eventually returns.
C18_EventuallyReturns ==
    <>(pc = "returned" \/ stop \in {"TypeError", "KeyError"} \/ Truncated)

\* C18, amended: every statement of the sweep over thread counts either ends
\* run_series or strictly decreases a natural number, and run_series ends by
\* raising IndexError only when repetitions = 0, at the first thread count.
\* So when every invocation completes and repetitions >= 1 the sweep
\* returns.
C18_EventuallyStops ==
    /\ [](Variant >= 0)
    /\ [][pc' \in {"returned", "raised"} \/ Variant' < Variant]_vars
    /\ [](stop = "IndexError" => repetitions = 0 /\ Len(processed) = 0)

C18_Witness ==
    /\ stop = "hysteresis"
    /\ max_failures_to_improve >= 1
    /\ min_final_threads = 2
    /\ Len(processed) = 3
    /\ ImprovedAt(2)
    /\ ~Truncated

\* benchmark.py: the best average before thread count t, from the table
RECURSIVE LegacyBestBefore(_)
LegacyBestBefore(t) ==
    IF t <= 1
    THEN Whole(0)
    ELSE PyMax(LegacyBestBefore(t - 1), LegacyMean(results[t - 1]))

LegacyImprovedAt(t) == Gt(LegacyMean(results[t]), LegacyBestBefore(t))

\* benchmark.py: the non-improving thread counts in a row that end at t
RECURSIVE LegacyTrailingFailures(_)
LegacyTrailingFailures(t) ==
    IF t = 0 \/ LegacyImprovedAt(t) THEN 0 ELSE LegacyTrailingFailures(t - 1) + 1

LegacyStopsAt(t) ==
    /\ t > min_final_threads
    /\ ~LegacyImprovedAt(t)
    /\ LegacyTrailingFailures(t) >= max_failures_to_improve

\* C19: run_benchmarks of benchmark.py returns only at a thread count above
\* min_final_threads, which is the first thread count t above it whose
\* average nps is not above the best average before it while the
\* non-improving thread counts in a row number max_failures_to_improve or
\* more; it goes on past every thread count that is not such a t; and when
\* it returns the table holds exactly repetitions values for each of 1..t.
C19_LegacyStopsPastMinimum ==
    /\ pc = "returned" =>
          /\ threads > min_final_threads
          /\ LegacyStopsAt(threads)
          /\ \A t \in 1..(threads - 1) : ~LegacyStopsAt(t)
          /\ DOMAIN results = 1..threads
          /\ \A t \in 1..threads : Len(results[t]) = repetitions
    /\ (pc = "for" /\ threads >= 1) => ~LegacyStopsAt(threads)

C19_Witness ==
    /\ pc = "returned"
    /\ max_failures_to_improve = 1
    /\ min_final_threads = 2
    /\ threads = 3
    /\ repetitions = 2
    /\ ~LegacyImprovedAt(2)

====
